---- MODULE Spec2Model ----
(***************************************************************************)
(* cmeow: the project-file schema (util/_keys.py, util/_key_validators.py) *)
(* and the build orchestration (command/_command.py, util/_misc.py).       *)
(***************************************************************************)
EXTENDS Integers, Sequences, FiniteSets, TLC

VARIABLES
    cfgFile,      \* decoded content of `.cmeow-project` (a TOML table)
    edits,        \* number of hand edits made to the project file
    result,       \* outcome of the last Keys.from_toml on cfgFile
    clock,        \* the current instant
    fs,           \* the project tree: path -> [kind, mtime]
    pc,           \* position of the running command ("idle": none running)
    args,         \* the Namespace of the current (or last) command
    keys,         \* the Keys instance the command holds in memory
    should_build, \* _build's must-build decision
    trace,        \* subprocesses run and files saved by the command, in order
    out,          \* messages the command reported
    status,       \* how the command ended: "ok", an ExitCode, an exception
    start,        \* the tree and the project file when the command began
    prev,         \* the profile the previous command built, when it was a completed build
    quiet,        \* no user change to the tree since the last command ended
    ops,          \* number of commands started and of user changes to the tree
    call,         \* the run_cmd invocation in progress (or the last one of the process)
    at,           \* position of the main thread in run_cmd ("idle": not in it)
    stop_event,   \* the Event of the progress indicator: "none", "clear", "set"
    spinner_thread, \* the indicator thread: "none", "check", "frame", "dead"
    proc,         \* the child process
    raised,       \* the exception run_cmd is leaving with ("none": returning)
    console,      \* who wrote last to the console
    marked,       \* the directories that hold a `.cmeow-project`
    origin,       \* Path.cwd() when find_proj_dir is called
    cwd,          \* the directory find_proj_dir looks at
    proj_dir      \* what find_proj_dir came to

schemaVars == <<edits, result>>
cmdVars == <<clock, fs, pc, args, keys, should_build, trace, out, status, start, prev, quiet, ops>>
runVars == <<call, at, stop_event, spinner_thread, proc, raised, console>>
findVars == <<marked, origin, cwd, proj_dir>>
vars == <<cfgFile, edits, result, clock, fs, pc, args, keys, should_build, trace, out, status, start, prev, quiet, ops,
          call, at, stop_event, spinner_thread, proc, raised, console, marked, origin, cwd, proj_dir>>

-----------------------------------------------------------------------------
\* Bounds of the model.
MaxEdits == 3
MaxTime == 2
MaxOps == 3
MaxDepth == 3

-----------------------------------------------------------------------------
\* Decoded TOML values and Python objects.  Every value has the same shape:
\* t is the Python type, s a string payload, n an integer payload, rows the
\* items of a dict (in insertion order) or the fields of a _KeyBase instance.
Val(t, s, n, rows) == [t |-> t, s |-> s, n |-> n, rows |-> rows]
StrV(s) == Val("str", s, 0, <<>>)
IntV(n) == Val("int", "", n, <<>>)
FltV(s, n) == Val("float", s, n, <<>>)
DtV(n) == Val("dt", "", n, <<>>)
None == Val("none", "", 0, <<>>)
Table(rows) == Val("table", "", 0, rows)
Obj(cls, rows) == Val("keys", cls, 0, rows)
Row(k, v) == [k |-> k, v |-> v]

\* dict operations on rows
Has(rows, k) == \E i \in 1..Len(rows) : rows[i].k = k
Get(rows, k) == rows[CHOOSE i \in 1..Len(rows) : rows[i].k = k].v
Put(rows, k, v) ==
    IF Has(rows, k)
    THEN [i \in 1..Len(rows) |-> IF rows[i].k = k THEN Row(k, v) ELSE rows[i]]
    ELSE Append(rows, Row(k, v))
KeysOf(rows) == {rows[i].k : i \in 1..Len(rows)}

\* a default last_build later than every file timestamp
Sentinel_latest == MaxTime + 1

\* datetime.min.replace(tzinfo=UTC): earlier than every file timestamp
Sentinel == -1

-----------------------------------------------------------------------------
\* The schema: class annotations of the key groups, in declaration order.
Hint(f, ty, nullable) == [f |-> f, ty |-> ty, nullable |-> nullable]

type_hints(cls) ==
    CASE cls = "ProjectKeys" ->
            << Hint("last_build", "dt", TRUE),
               Hint("name", "str", FALSE),
               Hint("version", "str", FALSE),
               Hint("description", "str", TRUE),
               Hint("readme", "str", TRUE),
               Hint("std", "int", FALSE) >>
      [] cls = "CmeowKeys" -> << Hint("version", "str", FALSE) >>
      [] cls = "CmakeKeys" -> << Hint("version", "str", FALSE) >>
      [] cls = "DependenciesKeys" -> << >>
      [] cls = "Keys" ->
            << Hint("project", "ProjectKeys", FALSE),
               Hint("dependencies", "DependenciesKeys", FALSE),
               Hint("cmeow", "CmeowKeys", FALSE),
               Hint("cmake", "CmakeKeys", FALSE) >>

\* _KeyBase.__init_subclass__: a field is optional iff its hint is `X | None`
optional_fields(cls) ==
    {type_hints(cls)[i].f : i \in {j \in 1..Len(type_hints(cls)) : type_hints(cls)[j].nullable}}
required_fields(cls) ==
    {type_hints(cls)[i].f : i \in {j \in 1..Len(type_hints(cls)) : ~type_hints(cls)[j].nullable}}
dataclass_fields(cls) == {type_hints(cls)[i].f : i \in 1..Len(type_hints(cls))}

GroupClass(key) ==
    CASE key = "project" -> "ProjectKeys"
      [] key = "cmeow" -> "CmeowKeys"
      [] key = "cmake" -> "CmakeKeys"
      [] key = "dependencies" -> "DependenciesKeys"

\* key_prefix passed by each from_toml ("" at the root)
Prefix(cls) ==
    CASE cls = "ProjectKeys" -> "project"
      [] cls = "CmeowKeys" -> "cmeow"
      [] cls = "CmakeKeys" -> "cmake"
      [] cls = "DependenciesKeys" -> "dependencies"
      [] cls = "Keys" -> ""

-----------------------------------------------------------------------------
\* Constants of the validators.
supported_stds == {11, 14, 17, 20}
unsupported_stds == {98, 3}
cmeow_versions == {"0.1.0"}

\* semver.VersionInfo.parse accepts major.minor.patch[-stage][+meta]
IsSemver(s) == s \in {"0.1.0", "1.2.3-rc.1+x", "9.9.9"}

\* Python's int(str) and str(int) on the literals of the model
Numerals == << Row("5", 5), Row("17", 17), Row("19", 19), Row("98", 98) >>
IsNumeral(s) == \E i \in 1..Len(Numerals) : Numerals[i].k = s
IntOfStr(s) == Get(Numerals, s)
StrOfInt(n) == Numerals[CHOOSE i \in 1..Len(Numerals) : Numerals[i].v = n].k

\* outcome of a validator: the value, a perr(...) exit, or a raised exception
\* (msg is the message perr printed before exiting)
VOk(v) == [st |-> "ok", v |-> v, code |-> "", msg |-> ""]
VExit(code, msg) == [st |-> "exit", v |-> None, code |-> code, msg |-> msg]
VRaise(exc) == [st |-> "raise", v |-> None, code |-> exc, msg |-> ""]

\* _type(value) of Validator.validate_type
construct(type_, value) ==
    CASE type_ = "dt" -> VRaise("TypeError")
      [] type_ = "str" ->
            IF value.t = "str" THEN VOk(value)
            ELSE IF value.t = "int" THEN VOk(StrV(StrOfInt(value.n)))
            ELSE IF value.t = "float" THEN VOk(StrV(value.s))
            ELSE VOk(StrV("repr"))
      [] type_ = "int" ->
            IF value.t = "int" THEN VOk(value)
            ELSE IF value.t = "float" THEN VOk(IntV(value.n))
            ELSE IF value.t = "str"
                 THEN IF IsNumeral(value.s) THEN VOk(IntV(IntOfStr(value.s)))
                      ELSE VRaise("ValueError")
            ELSE VRaise("TypeError")
      [] type_ = "SemverStr" ->
            IF value.t # "str" THEN VRaise("TypeError")
            ELSE IF IsSemver(value.s) THEN VOk(value)
            ELSE VRaise("ValueError")

isinstance(value, type_) ==
    CASE type_ = "dt" -> value.t = "dt"
      [] type_ = "str" -> value.t = "str"
      [] type_ = "int" -> value.t = "int"
      [] type_ = "SemverStr" -> FALSE

\* the `except ValueError` of validate_type: other exceptions propagate
except_ValueError(c) ==
    IF c.st = "raise" /\ c.code = "ValueError" THEN VExit("INVALID_KEY_TYPE", "expected type") ELSE c

validate_type(value, type_, instance_check) ==
    IF instance_check /\ isinstance(value, type_) THEN VOk(value)
    ELSE except_ValueError(construct(type_, value))

DatetimeValidator(value) == validate_type(value, "dt", TRUE)

\* CmeowVersionValidator.validate after validate_type returned ret
cmeow_version_check(ret) ==
    IF ret.st # "ok" THEN ret
    ELSE IF ret.v.s \notin cmeow_versions THEN VExit("INVALID_KEY_VAL", "cmeow version is invalid")
    ELSE ret

CmeowVersionValidator(value) == cmeow_version_check(validate_type(value, "SemverStr", FALSE))

CmakeVersionValidator(value) == validate_type(value, "str", FALSE)
ProjectVersionValidator(value) == validate_type(value, "SemverStr", TRUE)
ProjectNameValidator(value) == validate_type(value, "str", TRUE)
StrValidator(value) == validate_type(value, "str", TRUE)
ReadmeValidator(value) == construct("str", value)

\* StdVersionValidator.validate without its `in unsupported_stds` test
std_version_check_generic(ret) ==
    IF ret.st # "ok" THEN ret
    ELSE IF ret.v.n \notin supported_stds THEN VExit("INVALID_KEY_VAL", "is invalid")
    ELSE ret

\* StdVersionValidator.validate after validate_type returned ret
std_version_check(ret) ==
    IF ret.st # "ok" THEN ret
    ELSE IF ret.v.n \in unsupported_stds THEN VExit("INVALID_KEY_VAL", "is unsupported")
    ELSE IF ret.v.n \notin supported_stds THEN VExit("INVALID_KEY_VAL", "is invalid")
    ELSE ret

StdVersionValidator(value) == std_version_check(validate_type(value, "int", TRUE))

\* get_validators()[key].validate(key, val, prefix)
get_validators(cls, key, value) ==
    CASE cls = "ProjectKeys" /\ key = "last_build" -> DatetimeValidator(value)
      [] cls = "ProjectKeys" /\ key = "name" -> ProjectNameValidator(value)
      [] cls = "ProjectKeys" /\ key = "version" -> ProjectVersionValidator(value)
      [] cls = "ProjectKeys" /\ key = "description" -> StrValidator(value)
      [] cls = "ProjectKeys" /\ key = "readme" -> ReadmeValidator(value)
      [] cls = "ProjectKeys" /\ key = "std" -> StdVersionValidator(value)
      [] cls = "CmeowKeys" /\ key = "version" -> CmeowVersionValidator(value)
      [] cls = "CmakeKeys" /\ key = "version" -> CmakeVersionValidator(value)

-----------------------------------------------------------------------------
\* Outcome of a from_toml: st is "ok" (val is the instance), "exit" (perr with
\* exit code `code`, err the reported failure) or "raise" (exception `code`).
\* warns are the keys pwarn was called with, in order.
NoErr == [kind |-> "none", names |-> {}]
POk(val, warns) == [st |-> "ok", code |-> "", err |-> NoErr, warns |-> warns, val |-> val]
PExit(code, err, warns) == [st |-> "exit", code |-> code, err |-> err, warns |-> warns, val |-> None]
NoResult == [st |-> "none", code |-> "", err |-> NoErr, warns |-> <<>>, val |-> None]
PRaise(exc, warns) == [st |-> "raise", code |-> exc, err |-> NoErr, warns |-> warns, val |-> None]

\* _check_unrecognized_key testing the required fields only
check_unrecognized_key_required_only(cls, key) == key \notin required_fields(cls)

check_unrecognized_key(cls, key) == key \notin dataclass_fields(cls)

\* the kd _check_missing_keys reports
missing_keys(cls, kd) == {key \in required_fields(cls) : ~Has(kd, key)}

check_missing_keys(cls, kd, warns) ==
    PExit("MISSING_KEYS",
          [kind |-> "missing", names |-> {<<Prefix(cls), key>> : key \in missing_keys(cls, kd)}],
          warns)

\* cls(**kd): every declared field, optional ones defaulting to None
new(cls, kd) ==
    Obj(cls, [i \in 1..Len(type_hints(cls)) |->
                LET f == type_hints(cls)[i].f IN
                Row(f, IF Has(kd, f) THEN Get(kd, f) ELSE None)])

\* the `for key, val in ....items()` loop of a leaf group's from_toml
RECURSIVE group_loop(_, _, _, _, _)
\* `kd[key] = cls.get_validators()[key].validate(...)` with outcome r
group_store(cls, rows, i, kd, warns, r) ==
    IF r.st = "ok"
    THEN group_loop(cls, rows, i + 1, Put(kd, rows[i].k, r.v), warns)
    ELSE IF r.st = "exit"
    THEN PExit(r.code, [kind |-> r.msg, names |-> {<<Prefix(cls), rows[i].k>>}], warns)
    ELSE PRaise(r.code, warns)

group_loop(cls, rows, i, kd, warns) ==
    IF i > Len(rows) THEN POk(Table(kd), warns)
    ELSE IF check_unrecognized_key(cls, rows[i].k)
         THEN group_loop(cls, rows, i + 1, kd, Append(warns, rows[i].k))
    ELSE IF cls = "DependenciesKeys"
         THEN group_loop(cls, rows, i + 1, kd, warns)
    ELSE group_store(cls, rows, i, kd, warns,
                     get_validators(cls, rows[i].k, rows[i].v))

\* `_check_missing_keys(...)` then `return cls(**kd)`
construct_checked(cls, kd, warns) ==
    IF missing_keys(cls, kd) # {}
    THEN check_missing_keys(cls, kd, warns)
    ELSE POk(new(cls, kd), warns)

\* ProjectKeys.from_toml without its `if "last_build" not in kd` statement
default_last_build_skipped(cls, kd) == kd

\* ProjectKeys.from_toml: `if "last_build" not in kd: kd["last_build"] = dt.min`
default_last_build(cls, kd) ==
    IF cls = "ProjectKeys" /\ ~Has(kd, "last_build")
    THEN Put(kd, "last_build", DtV(Sentinel))
    ELSE kd

\* the statements of a group's from_toml after its loop returned l
group_after_loop(cls, l) ==
    IF l.st # "ok" THEN l
    ELSE construct_checked(cls, default_last_build(cls, l.val.rows), l.warns)

\* CmeowKeys / CmakeKeys / ProjectKeys / DependenciesKeys .from_toml
group_from_toml(cls, data, warns) ==
    IF data.t # "table" THEN PRaise("AttributeError", warns)
    ELSE group_after_loop(cls, group_loop(cls, data.rows, 1, <<>>, warns))

RECURSIVE root_loop(_, _, _, _)
\* `kd[key] = cls.from_toml(toml_keys[key])` with outcome g
root_store(rows, i, kd, g) ==
    IF g.st # "ok" THEN g
    ELSE root_loop(rows, i + 1, Put(kd, rows[i].k, g.val), g.warns)

\* the loop of Keys.from_toml
root_loop(rows, i, kd, warns) ==
    IF i > Len(rows) THEN POk(Table(kd), warns)
    ELSE IF check_unrecognized_key("Keys", rows[i].k)
         THEN root_loop(rows, i + 1, kd, Append(warns, rows[i].k))
    ELSE root_store(rows, i, kd,
                    group_from_toml(GroupClass(rows[i].k), rows[i].v, warns))

\* the statements of Keys.from_toml after its loop returned l
root_after_loop(l) ==
    IF l.st # "ok" THEN l
    ELSE construct_checked("Keys", l.val.rows, l.warns)

Keys_from_toml(toml_keys) == root_after_loop(root_loop(toml_keys.rows, 1, <<>>, <<>>))

\* a file toml.load cannot decode: what is wrong with it, and the keys it holds
Malformed(problem, rows) == Val("malformed", problem, 0, rows)

\* Keys.from_toml_file parsing whatever the file holds
Keys_from_toml_file_lenient(file) == Keys_from_toml(Table(file.rows))

\* Keys.from_toml_file: toml.load, TomlDecodeError reported as DUPLICATE_KEYS
Keys_from_toml_file(file) ==
    IF file.t = "malformed"
    THEN PExit("DUPLICATE_KEYS", [kind |-> file.s, names |-> {}], <<>>)
    ELSE Keys_from_toml(file)

\* _KeyBase.to_toml: vars(self), recursing into nested instances
RECURSIVE to_toml(_)
to_toml(self) ==
    Table([i \in 1..Len(self.rows) |->
             Row(self.rows[i].k,
                 IF self.rows[i].v.t = "keys" THEN to_toml(self.rows[i].v)
                 ELSE self.rows[i].v)])

-----------------------------------------------------------------------------
\* The project tree.  Constant.* of util/_defaults.py.
project_file == ".cmeow-project"
src_dir == "src"
target_dir == "target"
main_src_file == "src/main.cpp"
cmake_build_files == {"CMakeCache.txt", "cmake_install.cmake", "Makefile"}
cmake_build_dirs == {"CMakeFiles"}
cmake_base_files == {"CMakeLists.txt"}
BuildTypes == {"debug", "release"}
\* BuildType.opposite
opposite(self) == IF self = "debug" THEN "debug" ELSE "release"

ProjectName == "demo"

cmake_build_dir(build_type) == target_dir \o "/" \o build_type \o "/cmake_build"
exe_path(build_type, name) == target_dir \o "/" \o build_type \o "/" \o name

\* every path of the tree, in the order Path.rglob("*") yields them
AllPaths ==
    << project_file, "CMakeLists.txt", "README.md", src_dir, main_src_file, target_dir,
       cmake_build_dir("debug") \o "/CMakeFiles",
       cmake_build_dir("debug") \o "/CMakeCache.txt",
       cmake_build_dir("debug") \o "/cmake_install.cmake",
       cmake_build_dir("debug") \o "/Makefile",
       exe_path("debug", ProjectName),
       cmake_build_dir("release") \o "/CMakeFiles",
       cmake_build_dir("release") \o "/CMakeCache.txt",
       cmake_build_dir("release") \o "/cmake_install.cmake",
       cmake_build_dir("release") \o "/Makefile",
       exe_path("release", ProjectName) >>
\* proj_dir itself, which rglob("*") does not yield
root == "."
Paths == {AllPaths[i] : i \in 1..Len(AllPaths)} \cup {root}

Absent == [kind |-> "none", mtime |-> 0]
File(t) == [kind |-> "file", mtime |-> t]
Dir(t) == [kind |-> "dir", mtime |-> t]
EmptyTree == [p \in Paths |-> Absent]

exists(tree, p) == tree[p].kind # "none"
is_file(tree, p) == tree[p].kind = "file"
is_dir(tree, p) == tree[p].kind = "dir"
rglob(tree) == SelectSeq(AllPaths, LAMBDA p : exists(tree, p))

\* cmake_files_exist looking at the build tree without the profile segment
cmake_files_exist_any_profile(tree, build_type) ==
    /\ \E bt \in BuildTypes :
          /\ \A f \in cmake_build_files : is_file(tree, cmake_build_dir(bt) \o "/" \o f)
          /\ \A d \in cmake_build_dirs : is_dir(tree, cmake_build_dir(bt) \o "/" \o d)
    /\ \A f \in cmake_base_files : is_file(tree, f)

cmake_files_exist(tree, build_type) ==
    /\ \A f \in cmake_build_files : is_file(tree, cmake_build_dir(build_type) \o "/" \o f)
    /\ \A f \in cmake_base_files : is_file(tree, f)
    /\ \A d \in cmake_build_dirs : is_dir(tree, cmake_build_dir(build_type) \o "/" \o d)

\* `mod_time > last_build` written as >=
newer_or_equal(mod_time, last_build) == mod_time >= last_build
\* `mod_time > last_build` written as <
newer_reversed(mod_time, last_build) == mod_time < last_build

newer(mod_time, last_build) == mod_time > last_build

RECURSIVE need_build_loop(_, _, _)
need_build_loop(files, tree, last_build) ==
    IF files = <<>> THEN FALSE
    ELSE IF is_file(tree, Head(files)) /\ newer(tree[Head(files)].mtime, last_build) THEN TRUE
    ELSE need_build_loop(Tail(files), tree, last_build)

need_build(tree, last_build) == need_build_loop(rglob(tree), tree, last_build)

\* keys.project.last_build, and its assignment
Field(obj, f) == Get(obj.rows, f)
last_build_of(ks) == Field(Field(ks, "project"), "last_build").n
\* update_project_file touching project.version as well
set_last_build_and_version(ks, t) ==
    Obj("Keys", Put(ks.rows, "project",
                    Obj("ProjectKeys", Put(Put(Field(ks, "project").rows, "last_build", DtV(t)),
                                           "version", StrV("9.9.9")))))

\* update_project_file recording the earliest instant instead of dt.now()
set_last_build_epoch(ks, t) ==
    Obj("Keys", Put(ks.rows, "project",
                    Obj("ProjectKeys", Put(Field(ks, "project").rows, "last_build", DtV(0)))))

set_last_build(ks, t) ==
    Obj("Keys", Put(ks.rows, "project",
                    Obj("ProjectKeys", Put(Field(ks, "project").rows, "last_build", DtV(t)))))

\* toml.dump: a key whose value is None is not written
RECURSIVE toml_dump(_)
toml_dump(table) ==
    LET kept == SelectSeq(table.rows, LAMBDA r : r.v.t # "none") IN
    Table([i \in 1..Len(kept) |->
             Row(kept[i].k, IF kept[i].v.t = "table" THEN toml_dump(kept[i].v) ELSE kept[i].v)])

\* _write_project_file recording the creation instant as last_build
NamespaceKeys_stamped(std) ==
    Obj("Keys",
        << Row("project", new("ProjectKeys",
                              << Row("last_build", DtV(0)),
                                 Row("name", StrV(ProjectName)), Row("version", StrV("0.1.0")),
                                 Row("description", StrV("Add your description here!")),
                                 Row("readme", StrV("README.md")), Row("std", IntV(std)) >>)),
           Row("dependencies", new("DependenciesKeys", <<>>)),
           Row("cmeow", new("CmeowKeys", << Row("version", StrV("0.1.0")) >>)),
           Row("cmake", new("CmakeKeys", << Row("version", StrV("3.25")) >>)) >>)

\* the Keys _write_project_file builds from the Namespace of `new`
NamespaceKeys(std) ==
    Obj("Keys",
        << Row("project", new("ProjectKeys",
                              << Row("name", StrV(ProjectName)), Row("version", StrV("0.1.0")),
                                 Row("description", StrV("Add your description here!")),
                                 Row("readme", StrV("README.md")), Row("std", IntV(std)) >>)),
           Row("dependencies", new("DependenciesKeys", <<>>)),
           Row("cmeow", new("CmeowKeys", << Row("version", StrV("0.1.0")) >>)),
           Row("cmake", new("CmakeKeys", << Row("version", StrV("3.25")) >>)) >>)

\* the text _write_project_file leaves in the project file
write_project_file(ks) == toml_dump(to_toml(ks))

\* mk_proj_files: the directories and the four files of a project
mk_proj_files(tree, now) ==
    [p \in Paths |->
        IF p \in {root, src_dir, target_dir} THEN (IF exists(tree, p) THEN tree[p] ELSE Dir(now))
        ELSE IF p \in {"CMakeLists.txt", "README.md", main_src_file, project_file} THEN File(now)
        ELSE tree[p]]

\* `cmake -DCMAKE_BUILD_TYPE=... -B <build_dir>`: it needs CMakeLists.txt, and
\* on success leaves the build tree of the profile
can_configure(tree) == is_file(tree, "CMakeLists.txt")
cmake_init(tree, build_type, now) ==
    [p \in Paths |->
        IF p \in {cmake_build_dir(build_type) \o "/" \o f : f \in cmake_build_files} THEN File(now)
        ELSE IF p \in {cmake_build_dir(build_type) \o "/" \o d : d \in cmake_build_dirs} THEN Dir(now)
        ELSE IF p = target_dir /\ ~exists(tree, p) THEN Dir(now)
        ELSE tree[p]]

\* `cmake --build <build_dir>`: it needs the generated Makefile and a source
\* file, and on success leaves the executable (relinked when out of date)
can_build(tree, build_type) ==
    /\ is_file(tree, cmake_build_dir(build_type) \o "/Makefile")
    /\ is_file(tree, main_src_file)
cmake_build(tree, build_type, now) ==
    LET exe == exe_path(build_type, ProjectName) IN
    IF ~exists(tree, exe) \/ tree[main_src_file].mtime > tree[exe].mtime
          \/ tree["CMakeLists.txt"].mtime > tree[exe].mtime
    THEN [tree EXCEPT ![exe] = File(now)]
    ELSE tree

Ev(op, bt, ok) == [op |-> op, bt |-> bt, ok |-> ok]
Invoked(op) == \E i \in 1..Len(trace) : trace[i].op = op
NoArgs == [command |-> "none", build_type |-> "debug", verbose |-> FALSE, quiet |-> FALSE]
NoStart == [fs |-> EmptyTree, cfg |-> Table(<<>>), clock |-> 0]

\* the command returns, exits or dies with an exception
End(s) ==
    /\ pc' = "done"
    /\ status' = s

\* a command starts: the dispatcher calls its function with the Namespace
Enter(command, build_type, verbose) ==
    /\ pc = "idle"
    /\ ops < MaxOps
    /\ ops' = ops + 1
    /\ args' = [command |-> command, build_type |-> build_type, verbose |-> verbose, quiet |-> quiet]
    /\ start' = [fs |-> fs, cfg |-> cfgFile, clock |-> clock]

\* _build / _run up to the loaded configuration: find_proj_dir, parse_project_file
Begin(commands) ==
    \E command \in commands, build_type \in BuildTypes, verbose \in BOOLEAN :
        /\ Enter(command, build_type, verbose)
        /\ trace' = <<>>
        /\ should_build' = FALSE
        /\ IF ~is_file(fs, project_file)
           THEN /\ End("PROJ_NOT_EXISTS")
                /\ out' = {"could not find project file"}
                /\ UNCHANGED keys
           ELSE LET r == Keys_from_toml_file(cfgFile) IN
                IF r.st = "ok"
                THEN /\ keys' = r.val
                     /\ pc' = "check"
                     /\ status' = "running"
                     /\ out' = {}
                ELSE /\ End(r.code)
                     /\ out' = {r.err.kind}
                     /\ UNCHANGED keys
        /\ UNCHANGED <<cfgFile, clock, fs, prev, quiet, schemaVars, runVars, findVars>>

\* the must-build decision left to the walk alone
decide_walk_only(tree, ks, build_type) == need_build(tree, last_build_of(ks))

\* _build, the must-build decision when the tool-state is present
decide(tree, ks, build_type) ==
    IF ~exists(tree, exe_path(build_type, Field(Field(ks, "project"), "name").s)) THEN TRUE
    ELSE need_build(tree, last_build_of(ks))

\* the call of need_build in that decision: made only when the executable exists
walked(tree, ks, build_type) ==
    IF ~exists(tree, exe_path(build_type, Field(Field(ks, "project"), "name").s)) THEN <<>>
    ELSE << Ev("walk", build_type, need_build(tree, last_build_of(ks))) >>

\* init_cmake called on every build
must_configure_always(tree, build_type) == TRUE

\* _build: `if not cmake_files_exist(proj_dir, args.build_type)`
must_configure(tree, build_type) == ~cmake_files_exist(tree, build_type)

\* `cmeow build`
BeginBuild == Begin({"build"})

\* `cmeow run`
BeginRun == Begin({"run"})

\* _build: the tool-state check, init_cmake when it fails, the must-build decision
ToolStateCheck ==
    /\ pc = "check"
    /\ IF must_configure(fs, args.build_type)
       THEN \E ok \in BOOLEAN :
              /\ ok => can_configure(fs)
              /\ fs' = IF ok THEN cmake_init(fs, args.build_type, clock) ELSE fs
              /\ trace' = Append(trace, Ev("init", args.build_type, ok))
              /\ IF ~ok /\ ~args.verbose
                 THEN End("CalledProcessError") /\ UNCHANGED should_build
                 ELSE should_build' = TRUE /\ pc' = "decided" /\ UNCHANGED status
       ELSE /\ should_build' = decide(fs, keys, args.build_type)
            /\ trace' = trace \o walked(fs, keys, args.build_type)
            /\ pc' = "decided"
            /\ UNCHANGED <<fs, status>>
    /\ UNCHANGED <<cfgFile, clock, args, keys, out, start, prev, quiet, ops, schemaVars, runVars, findVars>>

\* check_dir_exists never reporting
check_dir_exists_skipped(tree, path) == TRUE

\* check_dir_exists: TRUE when it returns, FALSE when it reports and exits
check_dir_exists(tree, path) == exists(tree, path)

\* _build: what it writes once build_proj returned (or was skipped)
report(sb) == IF sb THEN {"Finished"} ELSE {"Finished", "files unchanged"}

\* `if not should_build: ... return` never taken
returns_early_never(sb) == FALSE

\* `if not should_build: ... return`, which skips update_project_file
returns_early(sb) == ~sb

\* _build: check_dir_exists(src), build_proj when must-build, the report
Compile ==
    /\ pc = "decided"
    /\ IF ~check_dir_exists(fs, src_dir)
       THEN /\ End("DIR_NOT_EXISTS")
            /\ out' = out \cup {"could not find directory"}
            /\ UNCHANGED <<fs, trace>>
       ELSE \E ok \in BOOLEAN :
              /\ ~should_build => ok
              /\ (should_build /\ ok) => can_build(fs, args.build_type)
              /\ fs' = IF should_build /\ ok THEN cmake_build(fs, args.build_type, clock) ELSE fs
              /\ trace' = IF should_build THEN Append(trace, Ev("build", args.build_type, ok))
                          ELSE trace
              /\ IF should_build /\ ~ok /\ ~args.verbose
                 THEN End("CalledProcessError") /\ UNCHANGED out
                 ELSE /\ out' = out \cup report(should_build)
                      /\ IF returns_early(should_build)
                         THEN IF args.command = "run"
                              THEN pc' = "exec" /\ UNCHANGED status
                              ELSE End("ok")
                         ELSE pc' = "stamp" /\ UNCHANGED status
    /\ UNCHANGED <<cfgFile, clock, args, keys, should_build, start, prev, quiet, ops, schemaVars, runVars, findVars>>

\* update_project_file: keys.project.last_build = dt.now(tz=UTC)
Stamp ==
    /\ pc = "stamp"
    /\ keys' = set_last_build(keys, clock)
    /\ pc' = "write"
    /\ UNCHANGED <<cfgFile, clock, fs, args, should_build, trace, out, status, start, prev, quiet, ops, schemaVars, runVars, findVars>>

\* update_project_file: _write_project_file(proj_dir, keys)
Save ==
    /\ pc = "write"
    /\ cfgFile' = write_project_file(keys)
    /\ fs' = [fs EXCEPT ![project_file] = File(clock)]
    /\ trace' = Append(trace, Ev("save", args.build_type, TRUE))
    /\ IF args.command = "run"
       THEN pc' = "exec" /\ UNCHANGED status
       ELSE End("ok")
    /\ UNCHANGED <<clock, args, keys, should_build, out, start, prev, quiet, ops, schemaVars, runVars, findVars>>

\* _run after _build: the executable check, chdir(proj_dir) and the child
\* process, run with sp.run(check=True)
Exec ==
    /\ pc = "exec"
    /\ IF ~check_dir_exists(fs, exe_path(args.build_type, Field(Field(keys, "project"), "name").s))
       THEN /\ End("DIR_NOT_EXISTS")
            /\ out' = out \cup {"could not find executable"}
            /\ UNCHANGED trace
       ELSE \E ok \in BOOLEAN :
              /\ trace' = trace \o << Ev("chdir", args.build_type, TRUE),
                                      Ev("exec", args.build_type, ok) >>
              /\ out' = out \cup {"Running"}
              /\ End(IF ok THEN "ok" ELSE "CalledProcessError")
    /\ UNCHANGED <<cfgFile, clock, fs, args, keys, should_build, start, prev, quiet, ops, schemaVars, runVars, findVars>>

\* the process exits: what it held in memory is gone
Exit ==
    /\ pc = "done"
    /\ pc' = "idle"
    /\ prev' = IF args.command = "build" /\ status = "ok"
                  /\ \E i \in 1..Len(trace) : trace[i].op = "build" /\ trace[i].ok
               THEN args.build_type ELSE "none"
    /\ quiet' = TRUE
    /\ args' = NoArgs
    /\ keys' = None
    /\ should_build' = FALSE
    /\ trace' = <<>>
    /\ out' = {}
    /\ status' = "none"
    /\ start' = NoStart
    /\ UNCHANGED <<cfgFile, clock, fs, ops, schemaVars, runVars, findVars>>

\* time passes between two commands, and between reading the clock and
\* saving the project file in update_project_file
Tick ==
    /\ pc \in {"idle", "write"}
    /\ clock < MaxTime
    /\ clock' = clock + 1
    /\ UNCHANGED <<cfgFile, fs, pc, args, keys, should_build, trace, out, status, start, prev, quiet, ops, schemaVars, runVars, findVars>>

UserChange(tree) ==
    /\ pc = "idle"
    /\ ops < MaxOps
    /\ ops' = ops + 1
    /\ fs' = tree
    /\ quiet' = FALSE
    /\ UNCHANGED <<cfgFile, clock, pc, args, keys, should_build, trace, out, status, start, prev, schemaVars, runVars, findVars>>

\* the user edits a file, or sets its timestamp (touch -d)
UserTouch ==
    \E p \in {main_src_file, project_file}, t \in 0..clock :
        /\ is_file(fs, p)
        /\ UserChange([fs EXCEPT ![p] = File(t)])

\* the user deletes the executable, a file of the build tree, or the sources
UserDelete ==
    \/ \E bt \in BuildTypes :
         \E p \in {exe_path(bt, ProjectName), cmake_build_dir(bt) \o "/CMakeCache.txt"} :
            /\ exists(fs, p)
            /\ UserChange([fs EXCEPT ![p] = Absent])
    \/ /\ exists(fs, src_dir)
       /\ UserChange([fs EXCEPT ![src_dir] = Absent, ![main_src_file] = Absent])

\* no run_cmd invocation yet in the process
NoCall == [site |-> "none", args_verbose |-> FALSE, bg |-> FALSE, verbose |-> FALSE, spinner |-> FALSE]
NoProc == [state |-> "none", returncode |-> 0]

InitRunCmd ==
    /\ call = NoCall
    /\ at = "idle"
    /\ stop_event = "none"
    /\ spinner_thread = "none"
    /\ proc = NoProc
    /\ raised = "none"
    /\ console = "none"

\* what earlier builds of the profiles in `built` left in the directory
built_before(built) ==
    [p \in Paths |->
        IF \E bt \in built : p \in {cmake_build_dir(bt) \o "/" \o f : f \in cmake_build_files} \cup {exe_path(bt, ProjectName)}
        THEN File(0)
        ELSE IF \E bt \in built : p \in {cmake_build_dir(bt) \o "/" \o d : d \in cmake_build_dirs} \cup {target_dir}
        THEN Dir(0)
        ELSE Absent]

\* the project `cmeow new demo` leaves at instant 0, in an empty directory or
\* over a project that had been built before with the default profile
\* find_proj_dir has returned the directory the command was started in
NoSearch ==
    /\ marked = {1}
    /\ origin = 1
    /\ cwd = 1
    /\ proj_dir = [st |-> "returned", dir |-> 1]

InitBuilt ==
    /\ clock = 0
    /\ \E built \in {{}, {"debug"}} :
          fs = cmake_init(mk_proj_files(built_before(built), 0), "debug", 0)
    /\ pc = "idle"
    /\ args = NoArgs
    /\ keys = None
    /\ should_build = FALSE
    /\ trace = <<>>
    /\ out = {}
    /\ status = "none"
    /\ start = NoStart
    /\ prev = "none"
    /\ quiet = TRUE
    /\ ops = 0
    /\ InitRunCmd

InitCmd == InitBuilt /\ NoSearch

Init ==
    /\ cfgFile = write_project_file(NamespaceKeys(17))
    /\ edits = 0
    /\ result = NoResult
    /\ InitCmd

\* sequences of `cmeow build` on one project
Next ==
    \/ BeginBuild
    \/ ToolStateCheck
    \/ Compile
    \/ Stamp
    \/ Save
    \/ Exit
    \/ Tick
    \/ UserTouch
    \/ UserDelete

Spec == Init /\ [][Next]_vars

\* sequences of `cmeow build` and `cmeow run` on one project
NextRun ==
    \/ BeginBuild
    \/ BeginRun
    \/ ToolStateCheck
    \/ Compile
    \/ Stamp
    \/ Save
    \/ Exec
    \/ Exit
    \/ Tick
    \/ UserTouch
    \/ UserDelete

SpecRun == Init /\ [][NextRun]_vars

-----------------------------------------------------------------------------
\* Exit codes, creation of a project, and interrupts.

\* class ExitCode(IntEnum): the members in declaration order, numbered by auto()
ExitCodes ==
    << "SUCCESS", "FAILURE", "KB_INT", "INVALID_CMD", "INVALID_ARGS", "PROJ_EXISTS",
       "DIR_EXISTS", "CANNOT_CREATE_PROJ", "PROJ_NOT_EXISTS", "INVALID_KEY_TYPE",
       "INVALID_KEY_VAL", "DUPLICATE_KEYS", "MISSING_KEYS", "DIR_NOT_EXISTS" >>
ExitCode(name) == CHOOSE i \in 1..Len(ExitCodes) : ExitCodes[i] = name

\* `cmeow new <project>` / `cmeow init`: _new up to check_proj_exists
BeginNew ==
    \E command \in {"new", "init"}, verbose \in BOOLEAN :
        /\ Enter(command, "debug", verbose)
        /\ command = "init" => exists(fs, root)
        /\ pc' = "exists"
        /\ status' = "running"
        /\ trace' = <<>>
        /\ out' = {}
        /\ should_build' = FALSE
        /\ keys' = None
        /\ UNCHANGED <<cfgFile, clock, fs, prev, quiet, schemaVars, runVars, findVars>>

\* check_proj_exists always answering with the project's exit code
decline_code_project(is_project) == "PROJ_EXISTS"

\* check_proj_exists: the exit code when the user declines
decline_code(is_project) == IF is_project THEN "PROJ_EXISTS" ELSE "DIR_EXISTS"

\* check_proj_exists(proj_dir, ignore_folder=called_via_init)
CheckProjExists ==
    /\ pc = "exists"
    /\ IF ~exists(fs, root) \/ (~exists(fs, project_file) /\ args.command = "init")
       THEN /\ pc' = "files"
            /\ UNCHANGED <<out, status>>
       ELSE \E answer \in BOOLEAN :
              /\ out' = out \cup {IF exists(fs, project_file) THEN "project exists"
                                                              ELSE "folder exists"}
              /\ IF answer
                 THEN pc' = "files" /\ UNCHANGED status
                 ELSE End(decline_code(exists(fs, project_file)))
    /\ UNCHANGED <<cfgFile, clock, fs, args, keys, should_build, trace, start, prev, quiet, ops, schemaVars, runVars, findVars>>

\* mk_proj_files(proj_dir, args)
MkProjFiles ==
    /\ pc = "files"
    /\ fs' = mk_proj_files(fs, clock)
    /\ cfgFile' = write_project_file(NamespaceKeys(17))
    /\ keys' = NamespaceKeys(17)
    /\ pc' = "cmake"
    /\ UNCHANGED <<clock, args, should_build, trace, out, status, start, prev, quiet, ops, schemaVars, runVars, findVars>>

\* init_cmake(proj_dir, ..., first_time=not exists)
InitCmake ==
    /\ pc = "cmake"
    /\ \E ok \in BOOLEAN :
          /\ ok => can_configure(fs)
          /\ fs' = IF ok THEN cmake_init(fs, args.build_type, clock) ELSE fs
          /\ trace' = Append(trace, Ev("init", args.build_type, ok))
          /\ out' = out \cup {IF out \cap {"project exists", "folder exists"} = {}
                               THEN "Creating" ELSE "Initializing"}
          /\ End(IF ~ok /\ ~args.verbose THEN "CalledProcessError" ELSE "ok")
    /\ UNCHANGED <<cfgFile, clock, args, keys, should_build, start, prev, quiet, ops, schemaVars, runVars, findVars>>

\* cmd_map: the fail_msg registered for a command
fail_msg(command) ==
    CASE command = "build" -> "project may not have been fully built."
      [] command = "run" -> "could not run project executable."
      [] OTHER -> "none"

\* _new: the statements inside its `try`
in_try(command, where) == command \in {"new", "init"} /\ where \in {"files", "cmake"}

\* KeyboardInterrupt while a command runs: the handler of _new, or the one of
\* _AwesomeDict.run
Interrupt ==
    /\ pc \in {"exists", "files", "cmake", "check", "decided", "stamp", "write", "dump"}
    /\ IF in_try(args.command, pc)
       THEN /\ out' = out \cup {"may not have been fully initialized"}
            /\ trace' = trace \o << Ev("interrupt", args.build_type, TRUE),
                                    Ev(IF args.command = "init" THEN "resolve_init_fail"
                                                                 ELSE "resolve_new_fail",
                                       args.build_type, TRUE) >>
            /\ End("ok")
       ELSE /\ trace' = Append(trace, Ev("interrupt", args.build_type, TRUE))
            /\ IF fail_msg(args.command) # "none"
               THEN out' = out \cup {fail_msg(args.command)} /\ End("KB_INT")
               ELSE End("KeyboardInterrupt") /\ UNCHANGED out
    /\ UNCHANGED <<cfgFile, clock, fs, args, keys, should_build, start, prev, quiet, ops, schemaVars, runVars, findVars>>

\* what the target location holds before `new`/`init`: nothing, a folder
\* that is not a project, a project, or a project with its debug build tree
TargetBefore(kind) ==
    CASE kind = "none" -> EmptyTree
      [] kind = "folder" -> [EmptyTree EXCEPT ![root] = Dir(0), !["README.md"] = File(0)]
      [] kind = "project" -> mk_proj_files(EmptyTree, 0)
      [] kind = "built" -> cmake_init(mk_proj_files(EmptyTree, 0), "debug", 0)

InitNew ==
    /\ \E kind \in {"none", "folder", "project", "built"} :
          /\ fs = TargetBefore(kind)
          /\ cfgFile = IF kind \in {"project", "built"}
                       THEN write_project_file(NamespaceKeys(17))
                       ELSE Table(<<>>)
    /\ edits = 0
    /\ result = NoResult
    /\ clock = 0
    /\ pc = "idle"
    /\ args = NoArgs
    /\ keys = None
    /\ should_build = FALSE
    /\ trace = <<>>
    /\ out = {}
    /\ status = "none"
    /\ start = NoStart
    /\ prev = "none"
    /\ quiet = TRUE
    /\ ops = 0
    /\ InitRunCmd
    /\ NoSearch

\* sequences of `cmeow new`, `cmeow init` and `cmeow build` at one location,
\* any of them interrupted at any step
NextNew ==
    \/ BeginNew
    \/ CheckProjExists
    \/ MkProjFiles
    \/ InitCmake
    \/ BeginBuild
    \/ ToolStateCheck
    \/ Compile
    \/ Stamp
    \/ Save
    \/ Interrupt
    \/ Exit
    \/ Tick

SpecNew == InitNew /\ [][NextNew]_vars

-----------------------------------------------------------------------------
\* _write_project_file statement by statement: the file is opened for writing,
\* then written.

\* what toml.load gives for a file of length zero
EmptyFile == Table(<<>>)

\* `with proj_file.open("w", encoding="utf-8") as f:` truncates the file
OpenWrite ==
    /\ pc = "write"
    /\ cfgFile' = EmptyFile
    /\ fs' = [fs EXCEPT ![project_file] = File(clock)]
    /\ pc' = "dump"
    /\ UNCHANGED <<clock, args, keys, should_build, trace, out, status, start, prev, quiet, ops, schemaVars, runVars, findVars>>

\* `toml.dump(keys.to_toml(), f)` and the end of the `with` block
Dump ==
    /\ pc = "dump"
    /\ cfgFile' = write_project_file(keys)
    /\ trace' = Append(trace, Ev("save", args.build_type, TRUE))
    /\ IF args.command = "run"
       THEN pc' = "exec" /\ UNCHANGED status
       ELSE End("ok")
    /\ UNCHANGED <<clock, fs, args, keys, should_build, out, start, prev, quiet, ops, schemaVars, runVars, findVars>>

\* sequences of `cmeow build` on one project, interrupted at any step, the
\* save taken statement by statement
NextSave ==
    \/ BeginBuild
    \/ ToolStateCheck
    \/ Compile
    \/ Stamp
    \/ OpenWrite
    \/ Dump
    \/ Interrupt
    \/ Exit
    \/ Tick

SpecSave == Init /\ [][NextSave]_vars

-----------------------------------------------------------------------------
\* find_proj_dir.  A directory is its depth below the filesystem root (0), so
\* the ancestors of d are 0..d-1.

\* Path.parent: the parent of the filesystem root is the root itself
parent(d) == IF d = 0 THEN 0 ELSE d - 1

\* `while cwd != cwd.parent`
loop_test(d) == d # parent(d)

\* `origin = Path.cwd()`, `cwd = origin`
FindProjDir ==
    /\ proj_dir.st = "none"
    /\ cwd' = origin
    /\ proj_dir' = [st |-> "searching", dir |-> 0]
    /\ UNCHANGED <<marked, origin>>
    /\ UNCHANGED <<cfgFile, schemaVars, cmdVars, runVars>>

\* the body of the loop: `return cwd` when the project file exists in cwd,
\* `cwd = cwd.parent` otherwise
Iterate ==
    /\ proj_dir.st = "searching"
    /\ loop_test(cwd)
    /\ IF cwd \in marked
       THEN proj_dir' = [st |-> "returned", dir |-> cwd] /\ UNCHANGED cwd
       ELSE cwd' = parent(cwd) /\ UNCHANGED proj_dir
    /\ UNCHANGED <<marked, origin>>
    /\ UNCHANGED <<cfgFile, schemaVars, cmdVars, runVars>>

\* the loop ends: perr(..., ExitCode.PROJ_NOT_EXISTS)
GiveUp ==
    /\ proj_dir.st = "searching"
    /\ ~loop_test(cwd)
    /\ proj_dir' = [st |-> "PROJ_NOT_EXISTS", dir |-> 0]
    /\ UNCHANGED <<marked, origin, cwd>>
    /\ UNCHANGED <<cfgFile, schemaVars, cmdVars, runVars>>

\* a command started in a directory at most MaxDepth below the root, any of
\* its ancestors (and itself) holding a project file or not
InitFind ==
    /\ cfgFile = write_project_file(NamespaceKeys(17))
    /\ edits = 0
    /\ result = NoResult
    /\ InitBuilt
    /\ origin \in 0..MaxDepth
    /\ marked \in SUBSET (0..MaxDepth)
    /\ cwd = origin
    /\ proj_dir = [st |-> "none", dir |-> 0]

NextFind ==
    \/ FindProjDir
    \/ Iterate
    \/ GiveUp

\* the search is never suspended for ever: the process keeps running
SpecFind == InitFind /\ [][NextFind]_vars /\ WF_vars(NextFind)

-----------------------------------------------------------------------------
\* run_cmd and its progress indicator: the main thread, the indicator thread
\* and the child process, step by step.

\* `spinner=True` whatever the verbosity
spinner_always(verbose) == TRUE

\* `spinner=not verbose` of init_cmake and build_proj
spinner_kw(verbose) == ~verbose

\* the keyword arguments each caller passes to run_cmd
Kw(site, args_verbose, bg, verbose, spin) ==
    [site |-> site, args_verbose |-> args_verbose, bg |-> bg, verbose |-> verbose, spinner |-> spin]
init_cmake_run_cmd(verbose) == Kw("init_cmake", verbose, TRUE, verbose, spinner_kw(verbose))
build_proj_run_cmd(verbose) == Kw("build_proj", verbose, TRUE, verbose, spinner_kw(verbose))
run_run_cmd(verbose) == Kw("_run", verbose, FALSE, FALSE, FALSE)

\* the order in which one process reaches the callers: _new calls init_cmake;
\* _build calls init_cmake, then build_proj; _run calls _build, then run_cmd
Sites == << "init_cmake", "build_proj", "_run" >>
SiteNo(site) == IF site = "none" THEN 0 ELSE CHOOSE i \in 1..Len(Sites) : Sites[i] = site

\* where the child's output goes: _stdout/_stderr, or the pipe of Popen
stdout_of(kw) ==
    IF kw.verbose THEN "PIPE"
    ELSE IF kw.bg THEN "DEVNULL"
    ELSE "inherited"

alive(thread) == thread \in {"check", "frame"}

\* run_cmd is called: its first statements, up to `if spinner:`
RunCmd ==
    /\ at = "idle"
    /\ \E i \in 1..Len(Sites), verbose \in BOOLEAN :
          /\ i > SiteNo(call.site)
          /\ call # NoCall => verbose = call.args_verbose
          /\ call' = CASE Sites[i] = "init_cmake" -> init_cmake_run_cmd(verbose)
                       [] Sites[i] = "build_proj" -> build_proj_run_cmd(verbose)
                       [] Sites[i] = "_run" -> run_run_cmd(verbose)
    /\ at' = "spinner"
    /\ proc' = NoProc
    /\ raised' = "none"
    /\ UNCHANGED <<stop_event, spinner_thread, console>>
    /\ UNCHANGED <<cfgFile, schemaVars, cmdVars, findVars>>

\* `if spinner:` write(" "), Event(), Thread(target=_spinner).start()
StartSpinner ==
    /\ at = "spinner"
    /\ at' = "clock"
    /\ IF call.spinner
       THEN /\ console' = "main"
            /\ stop_event' = "clear"
            /\ spinner_thread' = "check"
       ELSE UNCHANGED <<console, stop_event, spinner_thread>>
    /\ UNCHANGED <<call, proc, raised>>
    /\ UNCHANGED <<cfgFile, schemaVars, cmdVars, findVars>>

\* `start = perf_counter()`, the statement between Thread.start() and `try:`
StartClock ==
    /\ at = "clock"
    /\ at' = "try"
    /\ UNCHANGED <<call, stop_event, spinner_thread, proc, raised, console>>
    /\ UNCHANGED <<cfgFile, schemaVars, cmdVars, findVars>>

\* inside `try:`: writeln() and sp.Popen(...) when verbose, sp.run(...) otherwise
Spawn ==
    /\ at = "try"
    /\ proc' = [state |-> "running", returncode |-> 0]
    /\ IF call.verbose
       THEN at' = "lines" /\ console' = "main"
       ELSE at' = "run" /\ UNCHANGED console
    /\ UNCHANGED <<call, stop_event, spinner_thread, raised>>
    /\ UNCHANGED <<cfgFile, schemaVars, cmdVars, findVars>>

\* the child writes: a line read from the pipe and written by the main thread
\* (`for line in proc.stdout: write(...)`), or its own write to the console
ChildOutput ==
    /\ proc.state = "running"
    /\ \/ at = "lines" /\ stdout_of(call) = "PIPE"
       \/ at = "run" /\ stdout_of(call) = "inherited"
    /\ console' = "child"
    /\ UNCHANGED <<call, at, stop_event, spinner_thread, proc, raised>>
    /\ UNCHANGED <<cfgFile, schemaVars, cmdVars, findVars>>

\* the child exits with a status of its own
ChildExit ==
    /\ proc.state = "running"
    /\ \E returncode \in {0, 1} : proc' = [state |-> "exited", returncode |-> returncode]
    /\ UNCHANGED <<call, at, stop_event, spinner_thread, raised, console>>
    /\ UNCHANGED <<cfgFile, schemaVars, cmdVars, findVars>>

\* the end of the `with sp.Popen(...)` block and write(Style.RESET_ALL): the
\* return code is not looked at
EndPopen ==
    /\ at = "lines"
    /\ proc.state = "exited"
    /\ at' = "finally"
    /\ console' = "main"
    /\ UNCHANGED <<call, stop_event, spinner_thread, proc, raised>>
    /\ UNCHANGED <<cfgFile, schemaVars, cmdVars, findVars>>

\* sp.run(..., check=True) returns, or raises CalledProcessError
EndRun ==
    /\ at = "run"
    /\ proc.state = "exited"
    /\ at' = "finally"
    /\ raised' = IF proc.returncode # 0 THEN "CalledProcessError" ELSE "none"
    /\ UNCHANGED <<call, stop_event, spinner_thread, proc, console>>
    /\ UNCHANGED <<cfgFile, schemaVars, cmdVars, findVars>>

\* run_cmd is left: `return perf_counter() - start`, or the exception goes on
left(exc) == IF exc = "none" THEN "returned" ELSE "raised"

\* `finally: if spinner: stop_event.set()`
Finally ==
    /\ at = "finally"
    /\ IF call.spinner
       THEN stop_event' = "set" /\ at' = "join"
       ELSE at' = left(raised) /\ UNCHANGED stop_event
    /\ UNCHANGED <<call, spinner_thread, proc, raised, console>>
    /\ UNCHANGED <<cfgFile, schemaVars, cmdVars, findVars>>

\* spinner_thread.join() returns once the thread has ended
Join ==
    /\ at = "join"
    /\ spinner_thread = "dead"
    /\ at' = left(raised)
    /\ UNCHANGED <<call, stop_event, spinner_thread, proc, raised, console>>
    /\ UNCHANGED <<cfgFile, schemaVars, cmdVars, findVars>>

\* the statements of run_cmd the `try:` covers
covered(where) == where \in {"try", "lines", "run"}

\* KeyboardInterrupt raised in the main thread, at whatever statement it is
\* executing: inside `try:` the `finally:` clause runs next, elsewhere the
\* exception leaves run_cmd at once
KeyboardInterrupt ==
    /\ at \in {"spinner", "clock", "try", "lines", "run", "finally", "join"}
    /\ raised' = "KeyboardInterrupt"
    /\ at' = IF covered(at) THEN "finally" ELSE "raised"
    /\ UNCHANGED <<call, stop_event, spinner_thread, proc, console>>
    /\ UNCHANGED <<cfgFile, schemaVars, cmdVars, findVars>>

\* _spinner: `if stop_event.is_set(): break`, and the writeln after the loop
SpinnerCheck ==
    /\ spinner_thread = "check"
    /\ IF stop_event = "set"
       THEN spinner_thread' = "dead" /\ console' = "spinner"
       ELSE spinner_thread' = "frame" /\ UNCHANGED console
    /\ UNCHANGED <<call, at, stop_event, proc, raised>>
    /\ UNCHANGED <<cfgFile, schemaVars, cmdVars, findVars>>

\* _spinner: write(frame, end="\b") and sleep(sleep_time)
SpinnerFrame ==
    /\ spinner_thread = "frame"
    /\ spinner_thread' = "check"
    /\ console' = "spinner"
    /\ UNCHANGED <<call, at, stop_event, proc, raised>>
    /\ UNCHANGED <<cfgFile, schemaVars, cmdVars, findVars>>

\* the caller goes on after run_cmd returned
Return ==
    /\ at = "returned"
    /\ at' = "idle"
    /\ UNCHANGED <<call, stop_event, spinner_thread, proc, raised, console>>
    /\ UNCHANGED <<cfgFile, schemaVars, cmdVars, findVars>>

\* the process ends, after its last run_cmd or with the exception: its
\* threads end with it
ProcessEnd ==
    /\ \/ at = "raised"
       \/ at = "idle" /\ call # NoCall
    /\ call' = NoCall
    /\ at' = "idle"
    /\ stop_event' = "none"
    /\ spinner_thread' = "none"
    /\ proc' = NoProc
    /\ raised' = "none"
    /\ console' = "none"
    /\ UNCHANGED <<cfgFile, schemaVars, cmdVars, findVars>>

\* the subprocess invocations of `new`, `build` and `run`, one process after
\* another
NextCmd ==
    \/ RunCmd
    \/ StartSpinner
    \/ StartClock
    \/ Spawn
    \/ ChildOutput
    \/ ChildExit
    \/ EndPopen
    \/ EndRun
    \/ Finally
    \/ Join
    \/ KeyboardInterrupt
    \/ SpinnerCheck
    \/ SpinnerFrame
    \/ Return
    \/ ProcessEnd

SpecCmd == Init /\ [][NextCmd]_vars

-----------------------------------------------------------------------------
\* The project file `new` writes for a built project, and hand edits of it.
ValidProject ==
    Table(<< Row("last_build", DtV(1)), Row("name", StrV("demo")),
             Row("version", StrV("0.1.0")), Row("description", StrV("desc")),
             Row("readme", StrV("README.md")), Row("std", IntV(17)) >>)

ValidFile ==
    Table(<< Row("project", ValidProject),
             Row("dependencies", Table(<<>>)),
             Row("cmeow", Table(<< Row("version", StrV("0.1.0")) >>)),
             Row("cmake", Table(<< Row("version", StrV("3.25")) >>)) >>)

\* other values a user may write for a key
Variants(g, k) ==
    CASE g = "project" /\ k = "std" -> {IntV(20), IntV(98), IntV(19), StrV("17"), StrV("c++17")}
      [] g = "project" /\ k = "readme" -> {IntV(5)}
      [] g = "project" /\ k = "last_build" -> {StrV("yesterday")}
      [] g = "project" /\ k = "name" -> {IntV(5)}
      [] g = "project" /\ k = "version" -> {StrV("1.2.3-rc.1+x"), StrV("one")}
      [] g = "cmeow" /\ k = "version" -> {StrV("9.9.9")}
      [] g = "cmake" /\ k = "version" -> {FltV("3.25", 3)}
      [] OTHER -> {}

Remove(rows, i) == [j \in 1..(Len(rows) - 1) |-> IF j < i THEN rows[j] ELSE rows[j + 1]]
MoveFirst(rows, i) == <<rows[i]>> \o Remove(rows, i)

EditedTo(file) ==
    /\ edits < MaxEdits
    /\ edits' = edits + 1
    /\ cfgFile' = file
    /\ result' = NoResult
    /\ UNCHANGED <<cmdVars, runVars, findVars>>

Edited(rows) == EditedTo(Table(rows))

\* the user deletes a key group
RemoveGroup ==
    \E i \in 1..Len(cfgFile.rows) : Edited(Remove(cfgFile.rows, i))

\* the user moves a key group to the top of the file
MoveGroup ==
    \E i \in 2..Len(cfgFile.rows) : Edited(MoveFirst(cfgFile.rows, i))

\* the user adds a table the schema does not declare
AddUnknownGroup ==
    /\ ~Has(cfgFile.rows, "extra")
    /\ Edited(Append(cfgFile.rows, Row("extra", Table(<< Row("x", IntV(5)) >>))))

\* the user deletes a key of a group
RemoveKey ==
    \E i \in 1..Len(cfgFile.rows) :
        /\ cfgFile.rows[i].v.t = "table"
        /\ \E j \in 1..Len(cfgFile.rows[i].v.rows) :
             Edited([cfgFile.rows EXCEPT ![i].v = Table(Remove(cfgFile.rows[i].v.rows, j))])

\* the user adds a key the group does not declare
AddUnknownKey ==
    \E i \in 1..Len(cfgFile.rows) :
        /\ cfgFile.rows[i].v.t = "table"
        /\ ~Has(cfgFile.rows[i].v.rows, "junk")
        /\ Edited([cfgFile.rows EXCEPT ![i].v = Table(Append(cfgFile.rows[i].v.rows, Row("junk", StrV("x"))))])

\* the user changes the value of a key
SetKey ==
    \E i \in 1..Len(cfgFile.rows) :
        /\ cfgFile.rows[i].v.t = "table"
        /\ \E j \in 1..Len(cfgFile.rows[i].v.rows) :
             \E v \in Variants(cfgFile.rows[i].k, cfgFile.rows[i].v.rows[j].k) :
                /\ v # cfgFile.rows[i].v.rows[j].v
                /\ Edited([cfgFile.rows EXCEPT ![i].v = Table([cfgFile.rows[i].v.rows EXCEPT ![j].v = v])])

\* the user breaks the syntax of the file, or writes a key twice
Corrupt ==
    /\ cfgFile.t = "table"
    /\ \E problem \in {"invalid syntax", "duplicate keys"} :
          EditedTo(Malformed(problem, cfgFile.rows))

\* Keys.from_toml_file on the project file
ParseFile ==
    /\ result = NoResult
    /\ result' = Keys_from_toml_file(cfgFile)
    /\ UNCHANGED <<cfgFile, edits>>
    /\ UNCHANGED <<cmdVars, runVars, findVars>>

InitParse ==
    /\ cfgFile = ValidFile
    /\ edits = 0
    /\ result = NoResult
    /\ InitCmd

NextParse ==
    \/ RemoveGroup
    \/ MoveGroup
    \/ AddUnknownGroup
    \/ RemoveKey
    \/ AddUnknownKey
    \/ SetKey
    \/ Corrupt
    \/ ParseFile

SpecParse == InitParse /\ [][NextParse]_vars

-----------------------------------------------------------------------------
\* What a project file contains, read off the file itself.

\* every required key the file lacks, as <<group, key>> (<<"", g>> for a group)
MissingIn(doc) ==
    {<<"", g>> : g \in {h \in required_fields("Keys") : ~Has(doc.rows, h)}}
    \cup UNION { {<<g, k>> : k \in {f \in required_fields(GroupClass(g)) : ~Has(Get(doc.rows, g).rows, f)}}
                 : g \in {h \in dataclass_fields("Keys") : Has(doc.rows, h)} }

\* every key of the file the schema does not declare, in file order
RECURSIVE UnknownRows(_, _)
UnknownRows(cls, rows) ==
    IF rows = <<>> THEN <<>>
    ELSE (IF Head(rows).k \notin dataclass_fields(cls) THEN <<Head(rows).k>>
          ELSE IF cls = "Keys" THEN UnknownRows(GroupClass(Head(rows).k), Head(rows).v.rows)
          ELSE <<>>)
         \o UnknownRows(cls, Tail(rows))
UnknownIn(doc) == UnknownRows("Keys", doc.rows)

\* the file without the keys the schema does not declare
RECURSIVE StripRows(_, _)
StripRows(cls, rows) ==
    IF rows = <<>> THEN <<>>
    ELSE (IF Head(rows).k \notin dataclass_fields(cls) THEN <<>>
          ELSE IF cls = "Keys"
               THEN <<Row(Head(rows).k, Table(StripRows(GroupClass(Head(rows).k), Head(rows).v.rows)))>>
          ELSE <<Head(rows)>>)
         \o StripRows(cls, Tail(rows))
Strip(doc) == Table(StripRows("Keys", doc.rows))

\* every value present under a declared key passes its validator
ValuesValid(doc) ==
    \A i \in 1..Len(doc.rows) :
        doc.rows[i].k \in dataclass_fields("Keys") =>
            \A j \in 1..Len(doc.rows[i].v.rows) :
                LET cls == GroupClass(doc.rows[i].k)
                    r == doc.rows[i].v.rows[j]
                IN  r.k \in dataclass_fields(cls) => get_validators(cls, r.k, r.v).st = "ok"

\* every value present under a declared key has the declared type
TypeOfField(cls, f) == type_hints(cls)[CHOOSE i \in 1..Len(type_hints(cls)) : type_hints(cls)[i].f = f].ty
ValuesTyped(doc) ==
    \A i \in 1..Len(doc.rows) :
        doc.rows[i].k \in dataclass_fields("Keys") =>
            \A j \in 1..Len(doc.rows[i].v.rows) :
                LET cls == GroupClass(doc.rows[i].k)
                    r == doc.rows[i].v.rows[j]
                IN  r.k \in dataclass_fields(cls) => r.v.t = TypeOfField(cls, r.k)

\* a valid input matching the schema: declared keys only, declared types,
\* valid values, no required key missing
MatchesSchema(doc) ==
    /\ UnknownIn(doc) = <<>>
    /\ MissingIn(doc) = {}
    /\ ValuesTyped(doc)
    /\ ValuesValid(doc)

Count(seq, x) == Cardinality({i \in 1..Len(seq) : seq[i] = x})

\* dict equality (insertion order does not matter)
RECURSIVE DictEq(_, _)
DictEq(a, b) ==
    /\ a.t = b.t
    /\ KeysOf(a.rows) = KeysOf(b.rows)
    /\ \A k \in KeysOf(a.rows) :
          LET x == Get(a.rows, k)
              y == Get(b.rows, k)
          IN  IF x.t = "table" /\ y.t = "table" THEN DictEq(x, y) ELSE x = y

Parsed == result # NoResult /\ cfgFile.t = "table"

-----------------------------------------------------------------------------
\* C1: a file missing N >= 1 required keys (its present values valid) ends in
\* one MISSING_KEYS failure whose message names all N missing keys.
C1_AllMissingKeysInOneFailure ==
    (Parsed /\ MissingIn(cfgFile) # {} /\ ValuesValid(cfgFile)) =>
        /\ result.st = "exit"
        /\ result.code = "MISSING_KEYS"
        /\ result.err.names = MissingIn(cfgFile)

\* C2: a file with unrecognized keys that is otherwise valid parses, with one
\* warning per unrecognized key, none of them stored, and every recognized
\* key valued as without the unrecognized keys.
C2_UnknownKeysWarnedAndDropped ==
    (Parsed /\ UnknownIn(cfgFile) # <<>> /\ Keys_from_toml(Strip(cfgFile)).st = "ok") =>
        /\ result.st = "ok"
        /\ Len(result.warns) = Len(UnknownIn(cfgFile))
        /\ \A k \in {"extra", "junk"} : Count(result.warns, k) = Count(UnknownIn(cfgFile), k)
        /\ KeysOf(result.val.rows) = dataclass_fields("Keys")
        /\ \A g \in dataclass_fields("Keys") :
              KeysOf(Get(result.val.rows, g).rows) = dataclass_fields(GroupClass(g))
        /\ result.val = Keys_from_toml(Strip(cfgFile)).val

C2_Witness ==
    /\ Parsed
    /\ result.st = "ok"
    /\ Count(result.warns, "junk") = 2
    /\ Count(result.warns, "extra") = 1

\* C3: for a valid input d matching the schema, with or without its optional
\* fields, Keys.from_toml(d).to_toml() equals d.
C3_RoundTrip ==
    (Parsed /\ MatchesSchema(cfgFile)) =>
        /\ result.st = "ok"
        /\ DictEq(to_toml(result.val), cfgFile)

-----------------------------------------------------------------------------
\* Properties of the build orchestration.
Requested == args.build_type
ExeOf(bt) == exe_path(bt, ProjectName)
PastDecision == pc \in {"decided", "stamp", "write", "exec"} \/ (pc = "done" /\ "Finished" \in out)
RegularFiles(tree) == {p \in Paths : is_file(tree, p)}
AllOlder(tree, lb) == \A p \in RegularFiles(tree) : tree[p].mtime < lb
RecordedInFile(doc) == Has(Get(doc.rows, "project").rows, "last_build")
BuildInvoked == \E i \in 1..Len(trace) : trace[i].op = "build"
BuildFailed == \E i \in 1..Len(trace) : trace[i].op = "build" /\ ~trace[i].ok
MarkersOf(bt) ==
    {cmake_build_dir(bt) \o "/" \o f : f \in cmake_build_files \cup cmake_build_dirs}
OnlyOpposite(tree, bt) ==
    /\ \A p \in MarkersOf(bt) : ~exists(tree, p)
    /\ \E o \in BuildTypes \ {bt} :
          /\ \A f \in cmake_build_files : is_file(tree, cmake_build_dir(o) \o "/" \o f)
          /\ \A d \in cmake_build_dirs : is_dir(tree, cmake_build_dir(o) \o "/" \o d)
    /\ \A f \in cmake_base_files : is_file(tree, f)

\* C4 as stated: in build, when every regular file of the tree is older than
\* the recorded last_build and the tool-state of the requested profile is
\* complete, must-build is false and no build command is invoked.
C4_OlderFilesNoBuild ==
    (/\ pc \in {"decided", "stamp", "write", "done"}
     /\ cmake_files_exist(start.fs, Requested)
     /\ RecordedInFile(start.cfg)
     /\ AllOlder(start.fs, Get(Get(start.cfg.rows, "project").rows, "last_build").n))
        => ~should_build /\ ~BuildInvoked

\* C4: in build, when every regular file of the tree is older than the
\* recorded last_build, the tool-state of the requested profile is complete
\* and the executable of the profile exists, must-build is false and no build
\* command is invoked.
C4_OlderFilesAndExeNoBuild ==
    (/\ pc \in {"decided", "stamp", "write", "done"}
     /\ cmake_files_exist(start.fs, Requested)
     /\ exists(start.fs, ExeOf(Requested))
     /\ RecordedInFile(start.cfg)
     /\ AllOlder(start.fs, Get(Get(start.cfg.rows, "project").rows, "last_build").n))
        => ~should_build /\ ~BuildInvoked

C4_Witness ==
    /\ pc = "done" /\ status = "ok"
    /\ cmake_files_exist(start.fs, Requested)
    /\ exists(start.fs, ExeOf(Requested))
    /\ RecordedInFile(start.cfg)
    /\ AllOlder(start.fs, Get(Get(start.cfg.rows, "project").rows, "last_build").n)
    /\ ~should_build /\ ~BuildInvoked

\* C5: need_build(root, last_build) is true exactly when some regular file
\* anywhere under the root, the build output included, has a modification time
\* strictly later than last_build; a time equal to last_build does not count.
C5_NeedBuildIffStrictlyNewer ==
    \A lb \in Sentinel..MaxTime :
        need_build(fs, lb) <=> \E p \in RegularFiles(fs) : fs[p].mtime > lb

C5_Witness ==
    /\ pc = "decided" /\ ~Invoked("init")
    /\ exists(fs, ExeOf(Requested))
    /\ ~should_build
    /\ ~need_build(fs, last_build_of(keys))
    /\ \E p \in RegularFiles(fs) :
          /\ fs[p].mtime = last_build_of(keys)
          /\ p \in MarkersOf(Requested) \cup {ExeOf(Requested)}

\* C6: when the project file has no last_build (the loaded value is the
\* never-built sentinel), build decides must-build = true, with the tool-state
\* of the requested profile present or absent.
C6_SentinelMustBuild ==
    (/\ pc \in {"decided", "stamp", "write"}
     /\ ~RecordedInFile(start.cfg))
        => should_build

C6_Witness ==
    /\ pc = "decided" /\ ~Invoked("init")
    /\ ~RecordedInFile(start.cfg)
    /\ last_build_of(keys) = Sentinel
    /\ cmake_files_exist(fs, Requested)
    /\ exists(fs, ExeOf(Requested))
    /\ should_build

\* C7: when build runs right after a completed build of the same profile with
\* no file modified by the user in between, the second run decides
\* must-build = false, reports "files unchanged" and leaves the project file
\* as the first run wrote it.
C7_SecondBuildUnchanged ==
    (/\ pc \in {"decided", "stamp", "write", "done"}
     /\ args.command = "build"
     /\ prev = Requested
     /\ args.quiet)
        => /\ ~should_build
           /\ cfgFile = start.cfg
           /\ pc = "done" => "files unchanged" \in out

C9_FailedBuildKeepsLastBuild ==
    BuildFailed => cfgFile = start.cfg

\* C10: when the tool-state exists only for the profile opposite to the
\* requested one, cmake_files_exist is false for the requested profile and
\* build runs the reconfiguration of the requested profile before building.
C10_OppositeProfileReconfigures ==
    (pc \notin {"idle", "check"} /\ OnlyOpposite(start.fs, Requested)) =>
        /\ ~cmake_files_exist(start.fs, Requested)
        /\ Len(trace) >= 1
        /\ trace[1].op = "init" /\ trace[1].bt = Requested
        /\ \A i \in 1..Len(trace) : trace[i].op = "build" => i > 1

C10_Witness ==
    /\ pc = "done" /\ status = "ok"
    /\ OnlyOpposite(start.fs, Requested)
    /\ Len(trace) >= 2
    /\ trace[1] = Ev("init", Requested, TRUE)
    /\ trace[2] = Ev("build", Requested, TRUE)
    /\ cmake_files_exist(fs, Requested)

\* C11: BuildType.opposite is a symmetric opposite relation on the profiles:
\* for the profile p a command is given, opposite(p) # p and
\* opposite(opposite(p)) = p, with opposite(debug) = release and
\* opposite(release) = debug.
C11_OppositeIsSymmetric ==
    pc # "idle" =>
        /\ opposite(Requested) \in BuildTypes \ {Requested}
        /\ opposite(opposite(Requested)) = Requested
        /\ opposite("debug") = "release"
        /\ opposite("release") = "debug"

-----------------------------------------------------------------------------
\* Properties of creation and of interrupts.
Creating == args.command \in {"new", "init"}
Prompted == out \cap {"project exists", "folder exists"} # {}
Declined == pc = "done" /\ Creating /\ Prompted /\ trace = <<>>
Interrupted == \E i \in 1..Len(trace) : trace[i].op = "interrupt"

\* C12: in create, when the target exists and the user declines the prompt,
\* the process exits with DIR_EXISTS for a non-project directory and with
\* PROJ_EXISTS for a project, the two codes differ, and nothing under the
\* target has been created or modified.
C12_DeclineExitsUntouched ==
    Declined =>
        /\ exists(start.fs, root)
        /\ status = IF exists(start.fs, project_file) THEN "PROJ_EXISTS" ELSE "DIR_EXISTS"
        /\ ExitCode("PROJ_EXISTS") # ExitCode("DIR_EXISTS")
        /\ fs = start.fs
        /\ cfgFile = start.cfg

C12_Witness ==
    /\ Declined
    /\ args.command = "new"
    /\ ~exists(start.fs, project_file)
    /\ status = "DIR_EXISTS"
    /\ fs = start.fs

\* C13: an interrupt at any step of the create sequence, the target-location
\* check included, is handled inside the command: the "may not have been
\* fully initialized" warning is emitted, the recovery routine of the variant
\* in use is invoked, and the interrupt does not propagate.
C13_CreateInterruptCompensated ==
    (pc = "done" /\ Creating /\ Interrupted) =>
        /\ "may not have been fully initialized" \in out
        /\ Invoked(IF args.command = "init" THEN "resolve_init_fail" ELSE "resolve_new_fail")
        /\ status # "KeyboardInterrupt"

\* C14: when build is interrupted, the dispatcher reports "project may not
\* have been fully built" as a non-fatal warning and the command does not end
\* with a failure exit status; for a command with no registered message the
\* interrupt propagates unchanged.
C14_BuildInterruptNonFatal ==
    (pc = "done" /\ Interrupted) =>
        /\ args.command = "build" =>
              /\ "project may not have been fully built." \in out
              /\ status \notin {ExitCodes[i] : i \in 2..Len(ExitCodes)}
        /\ (fail_msg(args.command) = "none" /\ ~Invoked("resolve_new_fail")
                /\ ~Invoked("resolve_init_fail")) => status = "KeyboardInterrupt"

-----------------------------------------------------------------------------
\* Properties of run.
Running == pc = "done" /\ args.command = "run"
BuildReturned == "Finished" \in out
ExeMissing == ~exists(fs, ExeOf(Requested))
IndexOf(op) == CHOOSE i \in 1..Len(trace) : trace[i].op = op

C16_ChildExitUntouched ==
    (Running /\ Invoked("exec")) =>
        /\ Invoked("chdir") /\ IndexOf("chdir") < IndexOf("exec")
        /\ ~trace[IndexOf("exec")].ok =>
              status \notin {"CalledProcessError"} \cup {ExitCodes[i] : i \in 1..Len(ExitCodes)}

-----------------------------------------------------------------------------
\* Properties of the validators and of loading.
ProjectOf(doc) == Get(doc.rows, "project")
HasStd(doc) ==
    /\ Has(doc.rows, "project")
    /\ ProjectOf(doc).t = "table"
    /\ Has(ProjectOf(doc).rows, "std")
StdOf(doc) == Get(ProjectOf(doc).rows, "std")
SetStd(doc, v) == Table(Put(doc.rows, "project", Table(Put(ProjectOf(doc).rows, "std", v))))
\* the file parses once its std is a supported one
ValidButStd(doc) == HasStd(doc) /\ Keys_from_toml(SetStd(doc, IntV(17))).st = "ok"

\* C17: the language-standard validator accepts an integer v exactly when v
\* is one of 11, 14, 17, 20; it rejects 98 and 3 with the "unsupported"
\* message and every other integer with the different "invalid" message,
\* one message per rejected value.
C17_StdVersionMessages ==
    (Parsed /\ ValidButStd(cfgFile) /\ StdOf(cfgFile).t = "int") =>
        /\ result.st = "ok" <=> StdOf(cfgFile).n \in {11, 14, 17, 20}
        /\ result.st = "ok" => Field(Field(result.val, "project"), "std") = StdOf(cfgFile)
        /\ result.st # "ok" =>
              /\ result.st = "exit"
              /\ result.err.names = {<<"project", "std">>}
              /\ result.err.kind = IF StdOf(cfgFile).n \in {98, 3} THEN "is unsupported"
                                                                   ELSE "is invalid"

C17_Witness ==
    /\ Parsed /\ ValidButStd(cfgFile)
    /\ StdOf(cfgFile) = IntV(98)
    /\ result.st = "exit"
    /\ result.code = "INVALID_KEY_VAL"
    /\ result.err.kind = "is unsupported"

\* C18: a decoded value of a wrong shape ends parsing in the report-and-exit
\* path with a classified exit code; no TypeError, AttributeError or KeyError
\* escapes from parsing.
C18_NoStructuralException ==
    (Parsed /\ result.st # "ok") =>
        /\ result.st = "exit"
        /\ result.code \in {ExitCodes[i] : i \in 1..Len(ExitCodes)}

\* C19: loading a malformed file (syntax error or duplicate key) fails with
\* an exit code that differs from the codes of missing keys, of a value of
\* the wrong type and of an invalid value, and no validator or key checker
\* runs on any key of that file.
C19_MalformedFileOwnCode ==
    (result # NoResult /\ cfgFile.t = "malformed") =>
        /\ result.st = "exit"
        /\ ExitCode(result.code) \notin
              {ExitCode("MISSING_KEYS"), ExitCode("INVALID_KEY_TYPE"), ExitCode("INVALID_KEY_VAL")}
        /\ result.err.names = {}
        /\ result.warns = <<>>

C19_Witness ==
    /\ result # NoResult
    /\ cfgFile.t = "malformed"
    /\ cfgFile.s = "duplicate keys"
    /\ HasStd(cfgFile) /\ StdOf(cfgFile) = IntV(98)
    /\ ~Has(ProjectOf(cfgFile).rows, "name")
    /\ result.code = "DUPLICATE_KEYS"

-----------------------------------------------------------------------------
\* Frame of the provenance update.
Created == write_project_file(NamespaceKeys(17))
FieldsOf(doc, g) == KeysOf(Get(doc.rows, g).rows) \ {"last_build"}

\* C20: after any sequence of build and run commands on a created project,
\* every field of the project file other than project.last_build has the
\* value it had after creation.
C20_OnlyLastBuildChanges ==
    /\ KeysOf(cfgFile.rows) = KeysOf(Created.rows)
    /\ \A g \in KeysOf(Created.rows) :
          /\ FieldsOf(cfgFile, g) = FieldsOf(Created, g)
          /\ \A f \in FieldsOf(Created, g) :
                Get(Get(cfgFile.rows, g).rows, f) = Get(Get(Created.rows, g).rows, f)

C20_Witness ==
    /\ Running /\ status = "ok"
    /\ Invoked("save") /\ Invoked("exec")
    /\ RecordedInFile(cfgFile)
    /\ ~RecordedInFile(Created)
    /\ Get(ProjectOf(cfgFile).rows, "last_build").n > 0
    /\ StdOf(cfgFile) = IntV(17)

-----------------------------------------------------------------------------
\* Properties of run_cmd and of the progress indicator.
Left == at \in {"returned", "raised"}
Streaming == at = "lines" /\ proc.state = "running"

\* C21: for every run_cmd invocation with the progress indicator enabled, on
\* every way out (the child succeeded, the child failed and an error is
\* raised, an interrupt) the indicator thread has been signalled to stop and
\* has ended when run_cmd returns or raises; and run_cmd's outcome is decided
\* by the child's status alone, as it is without the indicator.
C21_IndicatorJoinedOnEveryExit ==
    (Left /\ call.spinner /\ spinner_thread # "none") =>
        /\ stop_event = "set"
        /\ spinner_thread = "dead"
        /\ raised # "KeyboardInterrupt" =>
              (raised = "CalledProcessError" <=> (~call.verbose /\ proc.returncode # 0))

\* C22: in every subprocess invocation made by create, build or run, the
\* indicator thread is never running while the child's output reaches the
\* console (streamed line by line in verbose mode, or written by the child
\* of run itself).
C22_NoIndicatorWhileStreaming ==
    (stdout_of(call) \in {"PIPE", "inherited"} /\ at # "idle") => ~alive(spinner_thread)

C22_Witness ==
    /\ Streaming
    /\ call.site = "build_proj"
    /\ call.verbose
    /\ console = "child"
    /\ spinner_thread = "none"

-----------------------------------------------------------------------------
\* The scenario of a created project and its first build.
CreateDone == pc = "done" /\ Creating /\ status = "ok" /\ ~Interrupted
Loaded == Keys_from_toml_file(cfgFile)
\* the instant create wrote the template files
CreatedAt == fs["README.md"].mtime
AfterCreate == args.command = "build" /\ start.cfg = Created
SavedLastBuild == Get(ProjectOf(cfgFile).rows, "last_build").n

-----------------------------------------------------------------------------
\* Field classification and defaults.
Classes == {"ProjectKeys", "CmeowKeys", "CmakeKeys", "DependenciesKeys", "Keys"}
Partitioned(cls) ==
    /\ optional_fields(cls) \cap required_fields(cls) = {}
    /\ optional_fields(cls) \cup required_fields(cls) = dataclass_fields(cls)
    /\ \A i \in 1..Len(type_hints(cls)) :
          type_hints(cls)[i].nullable <=> type_hints(cls)[i].f \in optional_fields(cls)
InputOf(g) == Get(cfgFile.rows, g).rows
ParsedField(g, f) == Field(Field(result.val, g), f)
\* the declared fields of the parsed group are exactly those of its class, each
\* supplied by the input (as its validator returned it) or equal to dflt
SuppliedOrDefault(g, f, dflt) ==
    IF Has(InputOf(g), f)
    THEN ParsedField(g, f) = get_validators(GroupClass(g), f, Get(InputOf(g), f)).v
    ELSE ParsedField(g, f) = dflt
OptionalLacking == \E f \in optional_fields("ProjectKeys") : ~Has(InputOf("project"), f)

\* C24 as stated: the required and optional fields of every key group
\* partition its declared fields, a field being optional exactly when its type
\* is a nullable union; an otherwise valid input lacking an optional field
\* parses, and every declared field of the parsed instance is supplied by the
\* input or is null.
C24_AbsentOptionalIsNull ==
    /\ \A cls \in Classes : Partitioned(cls)
    /\ (Parsed /\ MissingIn(cfgFile) = {} /\ ValuesValid(cfgFile)) => result.st = "ok"
    /\ (Parsed /\ result.st = "ok") =>
          \A g \in dataclass_fields("Keys") :
              /\ KeysOf(Field(result.val, g).rows) = dataclass_fields(GroupClass(g))
              /\ \A f \in dataclass_fields(GroupClass(g)) : SuppliedOrDefault(g, f, None)

\* C24: the required and optional fields of every key group partition its
\* declared fields, a field being optional exactly when its type is a
\* nullable union; an otherwise valid input lacking an optional field parses,
\* and every declared field of the parsed instance is supplied by the input or
\* has its default: null for description and readme, the never-built sentinel
\* for last_build.
C24_AbsentOptionalHasDefault ==
    /\ \A cls \in Classes : Partitioned(cls)
    /\ (Parsed /\ MissingIn(cfgFile) = {} /\ ValuesValid(cfgFile)) => result.st = "ok"
    /\ (Parsed /\ result.st = "ok") =>
          \A g \in dataclass_fields("Keys") :
              /\ KeysOf(Field(result.val, g).rows) = dataclass_fields(GroupClass(g))
              /\ \A f \in dataclass_fields(GroupClass(g)) :
                    SuppliedOrDefault(g, f, IF f = "last_build" THEN DtV(Sentinel) ELSE None)

C24_Witness ==
    /\ Parsed /\ result.st = "ok"
    /\ KeysOf(InputOf("project")) = required_fields("ProjectKeys")
    /\ ParsedField("project", "description") = None
    /\ ParsedField("project", "readme") = None
    /\ ParsedField("project", "last_build") = DtV(Sentinel)
    /\ ParsedField("project", "std") = IntV(17)

-----------------------------------------------------------------------------
\* Atomicity of the save.
NewContents == IF keys = None THEN start.cfg ELSE write_project_file(keys)

\* C25: whenever a command has ended, interrupted or not, the project file
\* holds the complete contents it had before the command or the complete new
\* contents, and a load of it does not find an empty or partial configuration.
C25_SaveOldOrNew ==
    /\ pc = "done" => cfgFile \in {start.cfg, NewContents}
    /\ pc \in {"done", "idle"} =>
          /\ cfgFile # EmptyFile
          /\ Keys_from_toml_file(cfgFile).st = "ok"

-----------------------------------------------------------------------------
\* Order of the two staleness checks.
Deciding == args.command \in {"build", "run"} /\ PastDecision
ToolStateAbsent == ~cmake_files_exist(start.fs, Requested)
Times(op) == Cardinality({i \in 1..Len(trace) : trace[i].op = op})
RecordedLastBuild ==
    IF RecordedInFile(start.cfg) THEN Get(ProjectOf(start.cfg).rows, "last_build").n ELSE Sentinel

\* C26: in every build execution the tool-state check comes first: when the
\* tool-state of the requested profile is absent the reconfiguration is
\* invoked exactly once, before the build command, the source-freshness walk
\* is not performed and must-build is true whatever the timestamps; when it is
\* present the reconfiguration is never invoked.
C26_ToolStateCheckedFirst ==
    /\ (Deciding /\ ToolStateAbsent) =>
          /\ Times("init") = 1
          /\ trace[1] = Ev("init", Requested, trace[1].ok)
          /\ ~Invoked("walk")
          /\ should_build
    /\ (Deciding /\ ~ToolStateAbsent) => ~Invoked("init")
    /\ (pc = "done" /\ args.command \in {"build", "run"} /\ Invoked("init")) => ToolStateAbsent

\* the tool-state was removed after a build: no file is newer than last_build
C26_Witness ==
    /\ Deciding /\ ToolStateAbsent
    /\ pc = "done" /\ status = "ok"
    /\ ~need_build(start.fs, RecordedLastBuild)
    /\ should_build
    /\ Len(trace) >= 2
    /\ trace[1] = Ev("init", Requested, TRUE)
    /\ trace[2] = Ev("build", Requested, TRUE)
    /\ ~Invoked("walk")

\* C27: in build, when the tool-state of the requested profile is present and
\* the expected executable does not exist, must-build is true even if no file
\* is newer than last_build, and the walk is not performed; when the
\* executable exists the walk is performed and its answer is the decision.
C27_MissingExeMustBuild ==
    (Deciding /\ ~ToolStateAbsent) =>
        IF ~exists(start.fs, ExeOf(Requested))
        THEN should_build /\ ~Invoked("walk")
        ELSE /\ Times("walk") = 1
             /\ should_build = need_build(start.fs, RecordedLastBuild)

C27_Witness ==
    /\ Deciding /\ ~ToolStateAbsent
    /\ ~exists(start.fs, ExeOf(Requested))
    /\ ~need_build(start.fs, RecordedLastBuild)
    /\ should_build
    /\ ~Invoked("walk")
    /\ BuildInvoked

-----------------------------------------------------------------------------
\* Monotonicity of the recorded build instant.
LastBuildIn(doc) ==
    IF RecordedInFile(doc) THEN Get(ProjectOf(doc).rows, "last_build").n ELSE Sentinel
Completed == pc = "done" /\ status = "ok" /\ args.command \in {"build", "run"}
StampedSinceStart ==
    (Completed /\ BuildInvoked) =>
        /\ Invoked("save")
        /\ RecordedInFile(cfgFile)
        /\ LastBuildIn(cfgFile) >= start.clock

\* C28: across any sequence of build and run commands on one project, each
\* run to its end, the persisted project.last_build never decreases, and
\* each execution that invokes the build command and completes leaves it at
\* an instant not earlier than the start of that execution.
C28_LastBuildNeverDecreases ==
    [][LastBuildIn(cfgFile') >= LastBuildIn(cfgFile) /\ StampedSinceStart']_vars

\* a run at instant 1 or later rebuilt a project built before
C28_Witness ==
    /\ Completed /\ BuildInvoked
    /\ args.command = "run"
    /\ start.clock >= 1
    /\ RecordedInFile(start.cfg)
    /\ LastBuildIn(cfgFile) > LastBuildIn(start.cfg)
    /\ LastBuildIn(cfgFile) >= start.clock

-----------------------------------------------------------------------------
\* The source directory check of build.
SrcMissing ==
    /\ pc = "done" /\ args.command = "build"
    /\ is_file(start.fs, project_file)
    /\ ~exists(start.fs, src_dir)
BuildTreeOf(bt) == MarkersOf(bt) \cup {target_dir}
Changed == {p \in Paths : fs[p] # start.fs[p]}

\* C29 as stated: in build, if the source directory does not exist, the
\* command exits with DIR_NOT_EXISTS, the build command is never invoked, the
\* project file is left unchanged and nothing else in the project is changed.
C29_MissingSrcChangesNothing ==
    SrcMissing =>
        /\ status = "DIR_NOT_EXISTS"
        /\ ~BuildInvoked
        /\ cfgFile = start.cfg
        /\ fs = start.fs

\* C29: in build, if the source directory does not exist, the build command
\* is never invoked and the project file is left unchanged.  When the
\* tool-state of the requested profile is present the command exits with
\* DIR_NOT_EXISTS and nothing in the project is changed; when it is absent
\* the reconfiguration runs before the directory check, so the build tree of
\* the requested profile may have been created, and the command exits with
\* DIR_NOT_EXISTS unless the reconfiguration itself failed.
C29_MissingSrcNoBuild ==
    SrcMissing =>
        /\ ~BuildInvoked
        /\ ~Invoked("save")
        /\ cfgFile = start.cfg
        /\ IF ToolStateAbsent
           THEN /\ Times("init") = 1
                /\ Changed \subseteq BuildTreeOf(Requested)
                /\ status = IF trace[1].ok \/ args.verbose THEN "DIR_NOT_EXISTS"
                                                           ELSE "CalledProcessError"
           ELSE /\ status = "DIR_NOT_EXISTS"
                /\ fs = start.fs
                /\ ~Invoked("init")

C29_Witness ==
    /\ SrcMissing
    /\ ToolStateAbsent
    /\ status = "DIR_NOT_EXISTS"
    /\ "could not find directory" \in out
    /\ Changed # {}
    /\ cfgFile = start.cfg
    /\ ~BuildInvoked

-----------------------------------------------------------------------------
\* The search for the project directory.
UpToRoot(d) == 0..d
Holding == marked \cap UpToRoot(origin)

\* C30: find_proj_dir terminates for every starting directory; it returns the
\* nearest directory, among the starting directory and all its ancestors up
\* to and including the filesystem root, that holds the project file, and it
\* exits with PROJ_NOT_EXISTS only when none of them holds it.
C30_NearestAncestorFound ==
    /\ [](proj_dir.st = "returned" =>
            /\ proj_dir.dir \in Holding
            /\ \A d \in Holding : d <= proj_dir.dir)
    /\ [](proj_dir.st = "PROJ_NOT_EXISTS" => Holding = {})
    /\ <>(proj_dir.st \in {"returned", "PROJ_NOT_EXISTS"})

====
